---------------------------- MODULE Spec2Model ----------------------------
(***************************************************************************)
(* HL7 Log Finder (message-finder-3.py): the Tk main thread (start_search, *)
(* update_progress_bar, finalize_search) and the background worker         *)
(* (search_logic) as a state machine, with the string functions the scan   *)
(* relies on (strip, split on "======", substring test, isdigit, int).     *)
(*                                                                         *)
(* Text is a sequence of one-character tokens; the token "sup2" stands for *)
(* U+00B2 (SUPERSCRIPT TWO), a character for which str.isdigit() is True   *)
(* and int() raises ValueError.                                            *)
(***************************************************************************)
EXTENDS Integers, Sequences, FiniteSets, TLC

\* ------------------------------------------------------------------------
\* Bounds of the model
\* ------------------------------------------------------------------------
MaxRootEntries == 2
MaxFiles == 2
MaxElapsed == 1

\* ------------------------------------------------------------------------
\* Python values
\* ------------------------------------------------------------------------
None == "None"

\* the two texts search_logic stores in error_msg (lines 196, 254)
NetworkError == "Network Error: Could not list directory"
WriteError == "Error writing to file"

\* `if error_msg:` (line 303): None and the empty string are falsy.
Truthy(v) == v # None /\ v # ""

\* ------------------------------------------------------------------------
\* Characters and strings
\* ------------------------------------------------------------------------
DigitChars == <<"0", "1", "2", "3", "4", "5", "6", "7", "8", "9">>

Whitespace == {" "}

\* what str.isdigit() accepts per character: decimal digits and digit-like
\* characters such as superscripts
IsDigitChar(c) == (\E i \in 1..10 : DigitChars[i] = c) \/ c = "sup2"

\* what int() accepts per character once the text is all isdigit()
IsDecimalChar(c) == \E i \in 1..10 : DigitChars[i] = c

DigitVal(c) == (CHOOSE i \in 1..10 : DigitChars[i] = c) - 1

\* str.isdigit(): non-empty and every character a digit
IsDigit(s) == Len(s) > 0 /\ \A i \in 1..Len(s) : IsDigitChar(s[i])

RECURSIVE DecimalValue(_)
DecimalValue(s) ==
    IF Len(s) = 0 THEN 0
    ELSE 10 * DecimalValue(SubSeq(s, 1, Len(s) - 1)) + DigitVal(s[Len(s)])

\* whether int(s) returns; it raises ValueError otherwise
IsIntLiteral(s) == Len(s) > 0 /\ \A i \in 1..Len(s) : IsDecimalChar(s[i])

\* int(s) where it returns
IntOf(s) == DecimalValue(s)

\* s[:n]
Prefix(s, n) == SubSeq(s, 1, IF Len(s) < n THEN Len(s) ELSE n)

\* s.endswith(suffix)
EndsWith(s, suffix) ==
    /\ Len(s) >= Len(suffix)
    /\ SubSeq(s, Len(s) - Len(suffix) + 1, Len(s)) = suffix

\* s.strip()
Strip(s) ==
    LET keep == {i \in 1..Len(s) : s[i] \notin Whitespace}
    IN  IF keep = {} THEN <<>>
        ELSE SubSeq(s, CHOOSE i \in keep : \A j \in keep : i <= j,
                       CHOOSE i \in keep : \A j \in keep : i >= j)

\* term in message (substring test, case-sensitive: tokens compare exactly)
Contains(term, message) ==
    \E i \in 0..(Len(message) - Len(term)) :
        SubSeq(message, i + 1, i + Len(term)) = term

Delimiter == <<"=", "=", "=", "=", "=", "=">>

\* the first index at which sep starts in s, 0 when there is none
FindFirst(s, sep) ==
    LET hits == {i \in 1..(Len(s) - Len(sep) + 1) :
                    SubSeq(s, i, i + Len(sep) - 1) = sep}
    IN  IF hits = {} THEN 0 ELSE CHOOSE i \in hits : \A j \in hits : i <= j

\* s.split(sep): left to right, non-overlapping, empty pieces kept
RECURSIVE Split(_, _)
Split(s, sep) ==
    LET i == FindFirst(s, sep)
    IN  IF i = 0 THEN <<s>>
        ELSE <<SubSeq(s, 1, i - 1)>> \o Split(SubSeq(s, i + Len(sep), Len(s)), sep)

\* the elements of `list` at the positions of the set `at`, in order
RECURSIVE Pick(_, _)
Pick(list, at) ==
    IF at = {} THEN <<>>
    ELSE LET i == CHOOSE x \in at : \A y \in at : x <= y
         IN  <<list[i]>> \o Pick(list, at \ {i})

\* the listings that hold at most n of the entries of `list`, in its order
SubListings(list, n) ==
    {Pick(list, at) : at \in {a \in SUBSET (1..Len(list)) : Cardinality(a) <= n}}

\* all the sequences over S without repetition, of length at most n
\* (a directory listing names each entry once)
Listings(S, n) ==
    {s \in UNION {[1..k -> S] : k \in 0..n} :
        \A i, j \in 1..Len(s) : i # j => s[i] # s[j]}

\* ------------------------------------------------------------------------
\* Dates
\* ------------------------------------------------------------------------
Date(y, m, d) == [y |-> y, m |-> m, d |-> d]

\* n as exactly w decimal characters, zero padded
RECURSIVE Pad(_, _)
Pad(n, w) == IF w = 0 THEN <<>> ELSE Pad(n \div 10, w - 1) \o <<DigitChars[(n % 10) + 1]>>

\* date_obj.strftime('%Y%m%d')
date_to_YYYYMMDD(date_obj) == Pad(date_obj.y, 4) \o Pad(date_obj.m, 2) \o Pad(date_obj.d, 2)

\* ------------------------------------------------------------------------
\* Lines of the HTML report
\* ------------------------------------------------------------------------
Line(tag, path, id, text) == [tag |-> tag, path |-> path, id |-> id, text |-> text]

NumHeaderLines == 15

\* the lines start_search appends before it spawns the worker
HeaderLines == [i \in 1..NumHeaderLines |-> Line("header", <<>>, i, <<>>)]

ClosingLine == Line("closing", <<>>, 0, <<>>)

\* os.path.join(os.path.join(network_share_path, folder_name), file_name)
FilePath(folder_name, file_name) == <<folder_name, file_name>>

\* the three lines appended for one matching message
MatchLines(file_path, hl7_message, msg_counter) ==
    << Line("h2", file_path, 0, <<>>),
       Line("pre", <<>>, msg_counter, hl7_message),
       Line("button", <<>>, msg_counter, <<>>) >>

\* IsMatch with any() in place of all()
IsMatch_Any(hl7_message, terms) ==
    \E t \in 1..Len(terms) : Contains(terms[t], hl7_message)

\* all(term in hl7_message for term in terms)
IsMatch(hl7_message, terms) ==
    \A t \in 1..Len(terms) : Contains(terms[t], hl7_message)

\* ScanMessages with the id not advanced from one match to the next
RECURSIVE ScanMessages_SameId(_, _, _, _, _)
ScanMessages_SameId(hl7_list, k, terms, file_path, counter) ==
    IF k > Len(hl7_list) THEN <<>>
    ELSE IF IsMatch(hl7_list[k], terms)
         THEN MatchLines(file_path, hl7_list[k], counter)
                 \o ScanMessages_SameId(hl7_list, k + 1, terms, file_path, counter)
         ELSE ScanMessages_SameId(hl7_list, k + 1, terms, file_path, counter)

\* the loop over hl7_list from message k on: the lines it appends, the first
\* match taking the id `counter`
RECURSIVE ScanMessages(_, _, _, _, _)
ScanMessages(hl7_list, k, terms, file_path, counter) ==
    IF k > Len(hl7_list) THEN <<>>
    ELSE IF IsMatch(hl7_list[k], terms)
         THEN MatchLines(file_path, hl7_list[k], counter)
                 \o ScanMessages(hl7_list, k + 1, terms, file_path, counter + 1)
         ELSE ScanMessages(hl7_list, k + 1, terms, file_path, counter)

\* how many messages of hl7_list match
MatchCount(hl7_list, terms) ==
    Cardinality({k \in 1..Len(hl7_list) : IsMatch(hl7_list[k], terms)})

\* terms = [entry.get().strip() for entry in search_term_entries
\*          if entry.get().strip()]
RECURSIVE TermsOf(_)
TermsOf(entries) ==
    IF Len(entries) = 0 THEN <<>>
    ELSE (IF Strip(Head(entries)) # <<>> THEN <<Strip(Head(entries))>> ELSE <<>>)
            \o TermsOf(Tail(entries))

DefaultTimeout == 30

\* int(entry_timeout.get().strip()) with the fallbacks of lines 128-134;
\* an entry is [ok |-> FALSE] when int() raises, [ok |-> TRUE, val |-> n]
\* otherwise
ParseTimeout(entry) ==
    IF ~entry.ok THEN DefaultTimeout
    ELSE IF entry.val < 1 THEN DefaultTimeout ELSE entry.val

\* one item of the list comprehension of lines 202-205 raises ValueError:
\* isdigit() accepts the prefix and int() does not
FolderRaises(folder) ==
    Len(folder) >= 8 /\ IsDigit(Prefix(folder, 8)) /\ ~IsIntLiteral(Prefix(folder, 8))

\* the condition of the list comprehension of lines 202-205
DateInRange(folder, date_greater_than, date_less_than) ==
    /\ Len(folder) >= 8
    /\ IsDigit(Prefix(folder, 8))
    /\ IsIntLiteral(Prefix(folder, 8))
    /\ date_greater_than < IntOf(Prefix(folder, 8))
    /\ IntOf(Prefix(folder, 8)) < date_less_than

\* line 201: not item.endswith('zip')
NotArchive(item) == ~EndsWith(item, <<"z", "i", "p">>)

\* lines 201-205, where no item raises
FilterFolders(files_or_folders, date_greater_than, date_less_than) ==
    LET Keep(item) == NotArchive(item) /\ DateInRange(item, date_greater_than, date_less_than)
    IN  SelectSeq(files_or_folders, Keep)

\* lines 201-205 raise: some item left by line 201 raises in line 204
FilterRaises(files_or_folders) ==
    \E i \in 1..Len(files_or_folders) :
        NotArchive(files_or_folders[i]) /\ FolderRaises(files_or_folders[i])

\* ------------------------------------------------------------------------
\* Inputs: what the user enters and what the filesystem returns
\* ------------------------------------------------------------------------
F_20240101X == <<"2", "0", "2", "4", "0", "1", "0", "1", "X">>
F_20240102 == <<"2", "0", "2", "4", "0", "1", "0", "2">>
F_2024010sup2 == <<"2", "0", "2", "4", "0", "1", "0", "sup2">>
F_abc12345 == <<"a", "b", "c", "1", "2", "3", "4", "5">>
F_20240101_zip == <<"2", "0", "2", "4", "0", "1", "0", "1", ".", "z", "i", "p">>
F_20240101zip == <<"2", "0", "2", "4", "0", "1", "0", "1", "z", "i", "p">>
F_2024010 == <<"2", "0", "2", "4", "0", "1", "0">>

\* the listings of the root directory: at most MaxRootEntries of these
\* entries, in this order
RootNames == <<F_20240101X, F_20240102, F_2024010sup2>>
RootListings == SubListings(RootNames, MaxRootEntries)

\* the listings of a date folder: its first files, at most MaxFiles
FileNames == <<"a.log", "b.log", "c.log">>
FileListings == {SubSeq(FileNames, 1, n) : n \in 0..MaxFiles}

\* contents of a log file
T_A_AB == <<"A">> \o Delimiter \o <<"A", "B">>
T_B == <<"B">>
FileContents == {T_A_AB, T_B}

\* texts of the search term fields
E_A == <<"A">>
E_B == <<"B">>
E_blank == <<" ">>
EntryLists == { <<E_A>>, <<E_A, E_B>>, <<E_blank>> }

\* texts of the timeout field, as int() reads them
TimeoutEntries == { [ok |-> FALSE, val |-> 0], [ok |-> TRUE, val |-> 0], [ok |-> TRUE, val |-> 1] }

\* dates of the two date pickers
DateChoices == { Date(2023, 12, 31), Date(2024, 1, 3) }

\* ------------------------------------------------------------------------
\* State
\* ------------------------------------------------------------------------
VARIABLES
    \* module globals (lines 28-39)
    stop_search, search_done, search_timed_out, error_msg,
    output_file_path, output_lines, timeout_seconds,
    \* datetime.now() - search_start_time, in seconds
    elapsed,
    \* widgets: the Run button, the status label, the progress bar
    btn_state, btn_style, status_var, progress_value,
    \* update_progress_bar is called or scheduled (root.after)
    timer,
    \* the message boxes and popups shown since the last click on Run
    dialogs,
    \* start_search locals captured by search_logic
    terms, date_greater_than, date_less_than,
    \* the worker thread: position and locals of search_logic
    pc, msg_counter, files_or_folders, filtered_folders, fi,
    files_in_folder, fj, read_data,
    \* the report of the last click on Run: the file at the path of line
    \* 165 once writelines has returned
    outfile,
    \* history: the dates and term fields of the last click on Run
    request,
    \* history: the matches of this search, with their positions
    found,
    \* history: per folder reached, whether it was listed, its number of
    \* files, the number of files whose open was attempted and the number of
    \* those that raised
    folderLog,
    \* history: calls of the report write in this search
    writes,
    \* history: folder listings and file opens begun with stop_search set
    opsAfterStop,
    \* history: the last click on Run found a flag set or lines in
    \* output_lines, left by the search before it
    leftover

globals == <<stop_search, search_done, search_timed_out, error_msg,
             output_file_path, output_lines, timeout_seconds, elapsed>>
widgets == <<btn_state, btn_style, status_var, progress_value>>
closure == <<terms, date_greater_than, date_less_than>>
locals == <<msg_counter, files_or_folders, filtered_folders, fi,
            files_in_folder, fj, read_data>>
history == <<request, found, folderLog, writes, opsAfterStop, leftover>>
vars == <<globals, widgets, timer, dialogs, closure, pc, locals, outfile, history>>

NoFile == [state |-> "absent", lines |-> <<>>]
NoOps == [folders |-> 0, files |-> 0]

Init ==
    /\ stop_search = FALSE
    /\ search_done = FALSE
    /\ search_timed_out = FALSE
    /\ error_msg = None
    /\ output_file_path = None
    /\ output_lines = <<>>
    /\ timeout_seconds = DefaultTimeout
    /\ elapsed = 0
    /\ btn_state = "normal"
    /\ btn_style = "GreenButton.TButton"
    /\ status_var = "Status: Idle"
    /\ progress_value = 100
    /\ timer = FALSE
    /\ dialogs = <<>>
    /\ terms = <<>>
    /\ date_greater_than = 0
    /\ date_less_than = 0
    /\ pc = "none"
    /\ msg_counter = 1
    /\ files_or_folders = <<>>
    /\ filtered_folders = <<>>
    /\ fi = 1
    /\ files_in_folder = <<>>
    /\ fj = 1
    /\ read_data = <<>>
    /\ outfile = NoFile
    /\ request = [greater |-> Date(0, 0, 0), less |-> Date(0, 0, 0), entries |-> <<>>]
    /\ found = <<>>
    /\ folderLog = <<>>
    /\ writes = 0
    /\ opsAfterStop = NoOps
    /\ leftover = FALSE

\* ------------------------------------------------------------------------
\* Main thread
\* ------------------------------------------------------------------------

\* reset_ui (lines 67-73)
reset_ui ==
    /\ btn_style' = "GreenButton.TButton"
    /\ btn_state' = "normal"
    /\ status_var' = "Status: Idle"
    /\ progress_value' = 100

\* ResetFlags without the reset of stop_search
ResetFlags_KeepStop ==
    /\ UNCHANGED stop_search
    /\ search_done' = FALSE
    /\ search_timed_out' = FALSE
    /\ error_msg' = None

\* the flags start_search resets first (lines 111-115)
ResetFlags ==
    /\ stop_search' = FALSE
    /\ search_done' = FALSE
    /\ search_timed_out' = FALSE
    /\ error_msg' = None

\* the locals of search_logic when the thread starts (msg_counter = 1, the
\* rest not yet assigned)
NewFrame ==
    /\ msg_counter' = 1
    /\ files_or_folders' = <<>>
    /\ filtered_folders' = <<>>
    /\ fi' = 1
    /\ files_in_folder' = <<>>
    /\ fj' = 1
    /\ read_data' = <<>>

\* start_search returns before line 158: this click starts no thread, so
\* there is no search_logic frame, no captured local and no report of this
\* click
NoThread ==
    /\ NewFrame
    /\ terms' = <<>>
    /\ date_greater_than' = 0
    /\ date_less_than' = 0
    /\ outfile' = NoFile

\* DateRangeInvalid with > in place of >=: equal dates pass
DateRangeInvalid_Strict(date_greater, date_less) == date_greater > date_less

\* line 142: if date_greater_than >= date_less_than
DateRangeInvalid(date_greater, date_less) == date_greater >= date_less

\* a click on Run: start_search (lines 102-264) up to the start of the
\* thread; the call of update_progress_bar that ends it is the first firing
\* of the timer
StartSearchWith(timeoutEntries, dateChoices, entryLists) ==
    /\ btn_state = "normal"
    /\ \E tentry \in timeoutEntries, greater \in dateChoices, less \in dateChoices,
          entries \in entryLists :
        LET lower == IntOf(date_to_YYYYMMDD(greater))
            upper == IntOf(date_to_YYYYMMDD(less))
            trms == TermsOf(entries)
        IN  /\ ResetFlags
            /\ timeout_seconds' = ParseTimeout(tentry)
            /\ request' = [greater |-> greater, less |-> less, entries |-> entries]
            /\ found' = <<>>
            /\ folderLog' = <<>>
            /\ writes' = 0
            /\ opsAfterStop' = NoOps
            /\ leftover' = (stop_search \/ search_done \/ search_timed_out
                               \/ error_msg # None \/ output_lines # <<>>)
            /\ IF DateRangeInvalid(lower, upper)
               THEN /\ dialogs' = <<"Input Error: dates">>
                    /\ output_lines' = <<>>
                    /\ reset_ui
                    /\ NoThread
                    /\ UNCHANGED <<output_file_path, elapsed, timer, pc>>
               ELSE IF trms = <<>>
               THEN /\ dialogs' = <<"Input Error: terms">>
                    /\ output_lines' = <<>>
                    /\ reset_ui
                    /\ NoThread
                    /\ UNCHANGED <<output_file_path, elapsed, timer, pc>>
               ELSE /\ dialogs' = <<>>
                    /\ btn_style' = "RedButton.TButton"
                    /\ btn_state' = "disabled"
                    /\ status_var' = "Status: Searching..."
                    /\ progress_value' = 100
                    /\ date_greater_than' = lower
                    /\ date_less_than' = upper
                    /\ terms' = trms
                    /\ output_file_path' = "output/OUTPUT-timestamp.html"
                    /\ outfile' = NoFile
                    /\ output_lines' = HeaderLines
                    /\ elapsed' = 0
                    /\ pc' = "list_root"
                    /\ NewFrame
                    /\ timer' = TRUE

StartSearch == StartSearchWith(TimeoutEntries, DateChoices, EntryLists)

\* finalize_search (lines 292-310): the dialogs it shows
FinalDialogs ==
    (IF search_timed_out THEN <<"Timeout">> ELSE <<>>)
        \o (IF Truthy(error_msg) THEN <<"Error">> ELSE <<"Search Complete">>)

\* the progress bar value of line 287
Percent(time_left) ==
    IF timeout_seconds > 0 THEN (time_left * 100) \div timeout_seconds ELSE 0

\* UpdateProgressBar that runs finalize_search as soon as the time is up,
\* without waiting for search_done
UpdateProgressBar_FinalizeOnStop ==
    /\ timer
    /\ IF search_done \/ stop_search
       THEN /\ dialogs' = dialogs \o FinalDialogs
            /\ reset_ui
            /\ timer' = FALSE
            /\ UNCHANGED <<globals, closure, pc, locals, outfile, history>>
       ELSE \E now \in elapsed..MaxElapsed :
            LET time_left == timeout_seconds - now
            IN  /\ elapsed' = now
                /\ stop_search' = (IF time_left <= 0 THEN TRUE ELSE stop_search)
                /\ progress_value' = Percent(IF time_left <= 0 THEN 0 ELSE time_left)
                /\ UNCHANGED <<search_done, search_timed_out, error_msg,
                               output_file_path, output_lines, timeout_seconds,
                               btn_state, btn_style, status_var, timer, dialogs,
                               closure, pc, locals, outfile, history>>

\* update_progress_bar (lines 266-290), with finalize_search when the
\* search is done
UpdateProgressBar ==
    /\ timer
    /\ IF search_done
       THEN /\ dialogs' = dialogs \o FinalDialogs
            /\ reset_ui
            /\ timer' = FALSE
            /\ UNCHANGED <<globals, closure, pc, locals, outfile, history>>
       ELSE \E now \in elapsed..MaxElapsed :
            LET time_left == timeout_seconds - now
            IN  /\ elapsed' = now
                /\ stop_search' = (IF time_left <= 0 THEN TRUE ELSE stop_search)
                /\ progress_value' = Percent(IF time_left <= 0 THEN 0 ELSE time_left)
                /\ UNCHANGED <<search_done, search_timed_out, error_msg,
                               output_file_path, output_lines, timeout_seconds,
                               btn_state, btn_style, status_var, timer, dialogs,
                               closure, pc, locals, outfile, history>>

\* ------------------------------------------------------------------------
\* Worker thread: search_logic (lines 188-256)
\* ------------------------------------------------------------------------
CountOp(kind) ==
    IF stop_search THEN [opsAfterStop EXCEPT ![kind] = @ + 1] ELSE opsAfterStop

\* ListRoot with the `return` of line 198 missing: after a root failure the
\* worker goes on to write the report
ListRoot_NoReturn(listings) ==
    /\ pc = "list_root"
    /\ \/ \E listing \in listings :
            /\ files_or_folders' = listing
            /\ pc' = "filter"
            /\ UNCHANGED <<error_msg, search_done>>
       \/ /\ error_msg' = NetworkError
          /\ pc' = "write"
          /\ UNCHANGED <<files_or_folders, search_done>>
    /\ UNCHANGED <<stop_search, search_timed_out, output_file_path, output_lines,
                   timeout_seconds, elapsed, widgets, timer, dialogs, closure,
                   msg_counter, filtered_folders, fi, files_in_folder, fj,
                   read_data, outfile, history>>

\* lines 192-198: os.listdir(network_share_path) returns or raises
ListRoot(listings) ==
    /\ pc = "list_root"
    /\ \/ \E listing \in listings :
            /\ files_or_folders' = listing
            /\ pc' = "filter"
            /\ UNCHANGED <<error_msg, search_done>>
       \/ /\ error_msg' = NetworkError
          /\ search_done' = TRUE
          /\ pc' = "done"
          /\ UNCHANGED files_or_folders
    /\ UNCHANGED <<stop_search, search_timed_out, output_file_path, output_lines,
                   timeout_seconds, elapsed, widgets, timer, dialogs, closure,
                   msg_counter, filtered_folders, fi, files_in_folder, fj,
                   read_data, outfile, history>>

WListRoot == ListRoot(RootListings)

\* lines 200-205: the two list comprehensions; an item that raises ends the
\* thread with an uncaught ValueError
WFilter ==
    /\ pc = "filter"
    /\ IF FilterRaises(files_or_folders)
       THEN /\ pc' = "raised"
            /\ UNCHANGED <<filtered_folders, fi>>
       ELSE /\ filtered_folders' =
                   FilterFolders(files_or_folders, date_greater_than, date_less_than)
            /\ fi' = 1
            /\ pc' = "folder_check"
    /\ UNCHANGED <<globals, widgets, timer, dialogs, closure, msg_counter,
                   files_or_folders, files_in_folder, fj, read_data, outfile,
                   history>>

\* lines 209-212: the next folder of the for loop and the stop test
WFolderCheck ==
    /\ pc = "folder_check"
    /\ IF fi > Len(filtered_folders)
       THEN pc' = "write" /\ UNCHANGED search_timed_out
       ELSE IF stop_search
       THEN pc' = "write" /\ search_timed_out' = TRUE
       ELSE pc' = "list_folder" /\ UNCHANGED search_timed_out
    /\ UNCHANGED <<stop_search, search_done, error_msg, output_file_path,
                   output_lines, timeout_seconds, elapsed, widgets, timer,
                   dialogs, closure, locals, outfile, history>>

\* ListFolder with `break` in place of the `continue` of line 219: a folder
\* that cannot be listed ends the scan
ListFolder_Abort(listings) ==
    /\ pc = "list_folder"
    /\ \/ \E listing \in listings :
            /\ files_in_folder' = listing
            /\ fj' = 1
            /\ pc' = "file_check"
            /\ folderLog' = Append(folderLog,
                   [listed |-> TRUE, nfiles |-> Len(listing), nopened |-> 0, nfailed |-> 0])
            /\ UNCHANGED fi
       \/ /\ pc' = "write"
          /\ folderLog' = Append(folderLog,
                 [listed |-> FALSE, nfiles |-> 0, nopened |-> 0, nfailed |-> 0])
          /\ UNCHANGED <<fi, files_in_folder, fj>>
    /\ opsAfterStop' = CountOp("folders")
    /\ UNCHANGED <<globals, widgets, timer, dialogs, closure, msg_counter,
                   files_or_folders, filtered_folders, read_data, outfile,
                   request, found, writes, leftover>>

\* lines 214-219: os.listdir(folder_path) returns or raises (continue)
ListFolder(listings) ==
    /\ pc = "list_folder"
    /\ \/ \E listing \in listings :
            /\ files_in_folder' = listing
            /\ fj' = 1
            /\ pc' = "file_check"
            /\ folderLog' = Append(folderLog,
                   [listed |-> TRUE, nfiles |-> Len(listing), nopened |-> 0, nfailed |-> 0])
            /\ UNCHANGED fi
       \/ /\ fi' = fi + 1
          /\ pc' = "folder_check"
          /\ folderLog' = Append(folderLog,
                 [listed |-> FALSE, nfiles |-> 0, nopened |-> 0, nfailed |-> 0])
          /\ UNCHANGED <<files_in_folder, fj>>
    /\ opsAfterStop' = CountOp("folders")
    /\ UNCHANGED <<globals, widgets, timer, dialogs, closure, msg_counter,
                   files_or_folders, filtered_folders, read_data, outfile,
                   request, found, writes, leftover>>

WListFolder == ListFolder(FileListings)

\* WFileCheck without the stop test of lines 222-224
WFileCheck_NoStop ==
    /\ pc = "file_check"
    /\ IF fj > Len(files_in_folder)
       THEN pc' = "after_files"
       ELSE pc' = "read_file"
    /\ UNCHANGED <<globals, widgets, timer, dialogs, closure, locals, outfile,
                   history>>

\* lines 221-224: the next file of the for loop and the stop test
WFileCheck ==
    /\ pc = "file_check"
    /\ IF fj > Len(files_in_folder)
       THEN pc' = "after_files" /\ UNCHANGED search_timed_out
       ELSE IF stop_search
       THEN pc' = "after_files" /\ search_timed_out' = TRUE
       ELSE pc' = "read_file" /\ UNCHANGED search_timed_out
    /\ UNCHANGED <<stop_search, search_done, error_msg, output_file_path,
                   output_lines, timeout_seconds, elapsed, widgets, timer,
                   dialogs, closure, locals, outfile, history>>

\* the matches of one file as history records
FoundIn(hl7_list, folder, file) ==
    LET hits == SelectSeq([k \in 1..Len(hl7_list) |-> k],
                          LAMBDA k : IsMatch(hl7_list[k], terms))
    IN  [n \in 1..Len(hits) |->
            [folder |-> folder, file |-> file, message |-> hits[n],
             file_path |-> FilePath(filtered_folders[folder], files_in_folder[file]),
             text |-> hl7_list[hits[n]]]]

\* lines 226-242: open and read the file (or raise: continue), split it and
\* append the matching messages
ReadFile(contents) ==
    /\ pc = "read_file"
    /\ \/ \E data \in contents :
            LET hl7_list == Split(data, Delimiter)
                file_path == FilePath(filtered_folders[fi], files_in_folder[fj])
            IN  /\ read_data' = data
                /\ output_lines' = output_lines
                       \o ScanMessages(hl7_list, 1, terms, file_path, msg_counter)
                /\ msg_counter' = msg_counter + MatchCount(hl7_list, terms)
                /\ found' = found \o FoundIn(hl7_list, fi, fj)
                /\ folderLog' = [folderLog EXCEPT ![Len(folderLog)].nopened = @ + 1]
       \/ /\ folderLog' = [folderLog EXCEPT ![Len(folderLog)].nopened = @ + 1,
                                             ![Len(folderLog)].nfailed = @ + 1]
          /\ UNCHANGED <<read_data, output_lines, msg_counter, found>>
    /\ fj' = fj + 1
    /\ pc' = "file_check"
    /\ opsAfterStop' = CountOp("files")
    /\ UNCHANGED <<stop_search, search_done, search_timed_out, error_msg,
                   output_file_path, timeout_seconds, elapsed, widgets, timer,
                   dialogs, closure, files_or_folders, filtered_folders, fi,
                   files_in_folder, outfile, request, writes, leftover>>

WReadFile == ReadFile(FileContents)

\* lines 244-245: after the files of a folder
WAfterFiles ==
    /\ pc = "after_files"
    /\ IF stop_search
       THEN pc' = "write" /\ UNCHANGED fi
       ELSE pc' = "folder_check" /\ fi' = fi + 1
    /\ UNCHANGED <<globals, widgets, timer, dialogs, closure, msg_counter,
                   files_or_folders, filtered_folders, files_in_folder, fj,
                   read_data, outfile, history>>

\* WWrite with the report written before the closing line is appended
WWrite_BeforeClosing ==
    /\ pc = "write"
    /\ output_lines' = Append(output_lines, ClosingLine)
    /\ \/ /\ outfile' = [state |-> "written", lines |-> output_lines]
          /\ UNCHANGED error_msg
       \/ /\ outfile' = NoFile
          /\ error_msg' = WriteError
    /\ writes' = writes + 1
    /\ pc' = "set_done"
    /\ UNCHANGED <<stop_search, search_done, search_timed_out, output_file_path,
                   timeout_seconds, elapsed, widgets, timer, dialogs, closure,
                   locals, request, found, folderLog, opsAfterStop, leftover>>

\* lines 247-254: the closing line, then the report is written; when open
\* or writelines raises there is no complete report
WWrite ==
    /\ pc = "write"
    /\ output_lines' = Append(output_lines, ClosingLine)
    /\ \/ /\ outfile' = [state |-> "written", lines |-> output_lines']
          /\ UNCHANGED error_msg
       \/ /\ outfile' = NoFile
          /\ error_msg' = WriteError
    /\ writes' = writes + 1
    /\ pc' = "set_done"
    /\ UNCHANGED <<stop_search, search_done, search_timed_out, output_file_path,
                   timeout_seconds, elapsed, widgets, timer, dialogs, closure,
                   locals, request, found, folderLog, opsAfterStop, leftover>>

\* line 256
WSetDone ==
    /\ pc = "set_done"
    /\ search_done' = TRUE
    /\ pc' = "done"
    /\ UNCHANGED <<stop_search, search_timed_out, error_msg, output_file_path,
                   output_lines, timeout_seconds, elapsed, widgets, timer,
                   dialogs, closure, locals, outfile, history>>

Worker ==
    \/ WListRoot
    \/ WFilter
    \/ WFolderCheck
    \/ WListFolder
    \/ WFileCheck
    \/ WReadFile
    \/ WAfterFiles
    \/ WWrite
    \/ WSetDone

Next ==
    \/ StartSearch
    \/ UpdateProgressBar
    \/ Worker

Spec == Init /\ [][Next]_vars

\* ------------------------------------------------------------------------
\* The folder filter on its own: the same start_search and worker steps up
\* to the filter, with more root entries and date bounds
\* ------------------------------------------------------------------------
FilterNames == {F_20240101X, F_abc12345, F_20240101_zip, F_20240101zip,
                F_2024010, F_2024010sup2, F_20240102}
FilterListings == Listings(FilterNames, MaxRootEntries)
FilterDates == { Date(2023, 12, 31), Date(2024, 1, 1), Date(2024, 1, 2), Date(2024, 1, 3) }

FilterStart == StartSearchWith({[ok |-> TRUE, val |-> 1]}, FilterDates, {<<E_A>>})
FilterListRoot == ListRoot(FilterListings)

NextFilter ==
    \/ FilterStart
    \/ FilterListRoot
    \/ WFilter

SpecFilter == Init /\ [][NextFilter]_vars

\* ------------------------------------------------------------------------
\* Definitions shared by the properties
\* ------------------------------------------------------------------------
\* the worker has left the folder loop (or never entered it)
ScanEnded == pc \in {"write", "set_done", "done"} /\ error_msg # NetworkError

\* every kept folder was reached and, where its listing succeeded, the open
\* of each of its files was attempted
AllVisited ==
    /\ Len(folderLog) = Len(filtered_folders)
    /\ \A i \in 1..Len(folderLog) : folderLog[i].nopened = folderLog[i].nfiles

\* the report lines of the matches in `found`, the Nth with id N
RECURSIVE Render(_, _)
Render(matches, n) ==
    IF n > Len(matches) THEN <<>>
    ELSE << Line("h2", matches[n].file_path, 0, <<>>),
            Line("pre", <<>>, n, matches[n].text),
            Line("button", <<>>, n, <<>>) >> \o Render(matches, n + 1)

\* position (folder, file) is before the place where the loops stopped
BeforeCutoff(folder, file) == folder < fi \/ (folder = fi /\ file < fj)

\* ------------------------------------------------------------------------
\* C1
\* ------------------------------------------------------------------------

\* C1: when the search is done with no root error and search_timed_out is
\* false, every file of every kept folder was visited or skipped for an
\* access error (a scan cut short by the stop flag is flagged as timed out).
C1_StopImpliesTimedOut ==
    (search_done /\ error_msg # NetworkError /\ ~search_timed_out) => AllVisited

\* ------------------------------------------------------------------------
\* C2
\* ------------------------------------------------------------------------

\* C2 as stated: once the root listing succeeded and search_done is set, the
\* report was written exactly once and holds the header, the matches up to
\* the cutoff and the closing line.
C2_ReportAlwaysWritten ==
    (search_done /\ error_msg # NetworkError) =>
        /\ writes = 1
        /\ outfile.state = "written"
        /\ outfile.lines = HeaderLines \o Render(found, 1) \o <<ClosingLine>>

\* C2 amended: once the root listing succeeded, the worker calls the report
\* write exactly once before it sets search_done, after a timeout as after
\* exhausting the folders; unless that write raises (error_msg is then the
\* write error and no report is left), the report holds the header, every
\* match collected up to the cutoff and the closing line, and no match from a
\* file or folder after the cutoff.
C2_PartialReport ==
    /\ writes <= 1
    /\ (search_done /\ error_msg # NetworkError) => writes = 1
    /\ (writes = 1 /\ error_msg # WriteError) =>
          /\ outfile.state = "written"
          /\ outfile.lines = HeaderLines \o Render(found, 1) \o <<ClosingLine>>
          /\ \A n \in 1..Len(found) : BeforeCutoff(found[n].folder, found[n].file)
    /\ (writes = 1 /\ error_msg = WriteError) => outfile.state = "absent"
    /\ (writes = 0 /\ pc # "none") => ~(search_done /\ error_msg # NetworkError)

\* a report written after a timeout that cut the scan before the last kept
\* folder, holding a match
C2_Witness ==
    /\ search_done
    /\ search_timed_out
    /\ outfile.state = "written"
    /\ Len(found) >= 1
    /\ Len(folderLog) < Len(filtered_folders)

\* ------------------------------------------------------------------------
\* C3
\* ------------------------------------------------------------------------

\* C3: when the listing of the root directory fails, error_msg is set, no
\* folder is listed, no file is opened, no match is appended, no report is
\* written, search_done is true, and finalize_search shows the error and not
\* the success popup (nor the timeout warning).
C3_RootFailureFatal ==
    error_msg = NetworkError =>
        /\ search_done
        /\ pc = "done"
        /\ folderLog = <<>>
        /\ opsAfterStop = NoOps
        /\ found = <<>>
        /\ output_lines = HeaderLines
        /\ writes = 0
        /\ outfile = NoFile
        /\ ~search_timed_out
        /\ (~timer => dialogs = <<"Error">>)
        /\ (timer => dialogs = <<>>)

\* finalize_search has reported a root listing failure
C3_Witness ==
    error_msg = NetworkError /\ ~timer /\ dialogs = <<"Error">> /\ btn_state = "normal"

\* ------------------------------------------------------------------------
\* C4
\* ------------------------------------------------------------------------
Scanning == pc \in {"folder_check", "list_folder", "file_check", "read_file", "after_files"}

\* C4: a folder whose listing fails or a file whose open or read fails is
\* skipped and the scan goes on in enumeration order: while the worker scans,
\* error_msg stays unset, every folder before the current one has been
\* reached and every file before the current one has been attempted, and no
\* match appended so far is lost, up to the written report; with no timeout
\* every file of every kept folder is visited.
C4_FailuresContained ==
    /\ (Scanning \/ pc = "write") =>
          /\ error_msg = None
          /\ output_lines = HeaderLines \o Render(found, 1)
    /\ pc = "folder_check" => Len(folderLog) = fi - 1
    /\ pc \in {"file_check", "read_file"} =>
          /\ Len(folderLog) = fi
          /\ folderLog[fi].nopened = fj - 1
    /\ outfile.state = "written" =>
          \A n \in 1..Len(found) :
              \E l \in 1..Len(outfile.lines) :
                  outfile.lines[l] = Line("pre", <<>>, n, found[n].text)
    /\ (ScanEnded /\ ~stop_search) => AllVisited

\* a finished scan with no timeout and no error in which a file of the first
\* folder raised, another file of that folder matched, the listing of the
\* second folder raised, and the report holds the match
C4_Witness ==
    /\ search_done
    /\ error_msg = None
    /\ ~stop_search
    /\ outfile.state = "written"
    /\ Len(folderLog) = 2
    /\ folderLog[1].nfiles = 2
    /\ folderLog[1].nfailed = 1
    /\ ~folderLog[2].listed
    /\ Len(found) >= 1

\* ------------------------------------------------------------------------
\* C5 (specification SpecFilter)
\* ------------------------------------------------------------------------

\* the filter as C5 states it
C5_Keeps(item) ==
    /\ ~EndsWith(item, <<".", "z", "i", "p">>)
    /\ Len(item) >= 8
    /\ \A i \in 1..8 : IsDecimalChar(item[i])
    /\ date_greater_than < DecimalValue(SubSeq(item, 1, 8))
    /\ DecimalValue(SubSeq(item, 1, 8)) < date_less_than

\* C5: once the root is listed and the filter has run, the kept folders are
\* exactly the entries that do not end in ".zip", have at least 8 characters,
\* start with 8 decimal digits and whose prefix lies strictly between the
\* two bounds, in the order of the listing.
C5_FilterAsStated ==
    pc \in {"folder_check", "raised"} =>
        /\ pc = "folder_check"
        /\ filtered_folders = SelectSeq(files_or_folders, C5_Keeps)

\* ------------------------------------------------------------------------
\* The message test on its own: one kept folder holding one file, with more
\* file contents and search term fields
\* ------------------------------------------------------------------------
T_AB7A == <<"A", "B">> \o Delimiter \o <<"=", "A">>
T_A5B == <<"A", "=", "=", "=", "=", "=", "B">>
T_empty == <<>>
T_aA == <<"a">> \o Delimiter \o <<"A">>
T_BA == <<"B", "A">> \o Delimiter \o <<"B", "|", "A">>
T_9999_THUY == <<"|", "9", "9", "9", "9", "|", "T", "H", "U", "Y">> \o Delimiter
                  \o <<"|", "9", "9", "9", "9", "|">>
MatchContents == {T_A_AB, T_B, T_AB7A, T_A5B, T_empty, T_aA, T_BA, T_9999_THUY}

E_AB == <<"A", "B">>
E_A_padded == <<" ", "A", " ">>
E_B_padded == <<"B", " ">>
E_9999 == <<"9", "9", "9", "9">>
E_THUY == <<"T", "H", "U", "Y">>
MatchEntryLists == { <<E_A>>, <<E_A, E_B>>, <<E_A_padded, E_blank, E_B_padded>>,
                     <<E_AB>>, <<E_9999, E_THUY>>, <<E_blank>> }

MatchStart == StartSearchWith({[ok |-> TRUE, val |-> 1]}, DateChoices, MatchEntryLists)
MatchListRoot == ListRoot({<<F_20240101X>>})
MatchListFolder == ListFolder({<<"a.log">>})
MatchReadFile == ReadFile(MatchContents)

NextMatch ==
    \/ MatchStart
    \/ MatchListRoot
    \/ WFilter
    \/ WFolderCheck
    \/ MatchListFolder
    \/ WFileCheck
    \/ MatchReadFile
    \/ WAfterFiles
    \/ WWrite
    \/ WSetDone

SpecMatch == Init /\ [][NextMatch]_vars

\* ------------------------------------------------------------------------
\* C6 (specification SpecMatch)
\* ------------------------------------------------------------------------

\* every non-blank term field, stripped, occurs in the candidate
C6_AllTermsOccur(candidate) ==
    \A i \in 1..Len(request.entries) :
        Strip(request.entries[i]) # <<>> => Contains(Strip(request.entries[i]), candidate)

C6_SomeTermOccurs(candidate) ==
    \E i \in 1..Len(request.entries) :
        Strip(request.entries[i]) # <<>> /\ Contains(Strip(request.entries[i]), candidate)

\* the file of the folder has been read
C6_FileRead ==
    Len(folderLog) = 1 /\ folderLog[1].nopened = 1 /\ folderLog[1].nfailed = 0

\* the texts of the "pre" lines of output_lines, in order
C6_Appended ==
    LET pre == SelectSeq(output_lines, LAMBDA l : l.tag = "pre")
    IN  [n \in 1..Len(pre) |-> pre[n].text]

\* C6: once the file is read, the messages appended to output_lines are
\* exactly the candidates of its split on "======" in which every non-blank
\* search term (as entered, stripped) occurs, the first candidate included;
\* a candidate with only some of the terms is not appended.
C6_AndSemantics ==
    C6_FileRead =>
        C6_Appended = SelectSeq(Split(read_data, Delimiter), C6_AllTermsOccur)

\* two terms; the first candidate of the file holds both and is appended, a
\* later one holds only one of them and is not
C6_Witness ==
    /\ C6_FileRead
    /\ Len(terms) = 2
    /\ LET cands == Split(read_data, Delimiter)
       IN  /\ Len(cands) >= 2
           /\ C6_AllTermsOccur(cands[1])
           /\ found # <<>>
           /\ found[1].message = 1
           /\ \E k \in 2..Len(cands) :
                 C6_SomeTermOccurs(cands[k]) /\ ~C6_AllTermsOccur(cands[k])

\* ------------------------------------------------------------------------
\* C7
\* ------------------------------------------------------------------------
IsPrefixOf(s, t) == Len(s) <= Len(t) /\ SubSeq(t, 1, Len(s)) = s

\* position p comes before position q: by folder, then file, then message
C7_Before(p, q) ==
    \/ p.folder < q.folder
    \/ p.folder = q.folder /\ p.file < q.file
    \/ p.folder = q.folder /\ p.file = q.file /\ p.message < q.message

\* the matches held in output_lines are those found, in discovery order,
\* the Nth with id N and under the path of its folder
C7_Ordered ==
    /\ \A n \in 1..(Len(found) - 1) : C7_Before(found[n], found[n + 1])
    /\ (btn_state = "disabled" /\ error_msg # NetworkError) =>
          /\ IsPrefixOf(HeaderLines \o Render(found, 1), output_lines)
          /\ Len(output_lines) <= Len(HeaderLines) + 3 * Len(found) + 1
          /\ \A n \in 1..Len(found) :
                found[n].file_path[1] = filtered_folders[found[n].folder]

\* during a search output_lines only grows
C7_AppendOnly == btn_state = "disabled" => IsPrefixOf(output_lines, output_lines')

\* C7: in every state of a scan the matches of output_lines are in discovery
\* order (folder position, then file position, then position in the split),
\* the Nth match has id msg_N, and no step of a scan removes or reorders a
\* line.
C7_MatchOrder == []C7_Ordered /\ [][C7_AppendOnly]_vars

\* matches from two messages of one file, from two files and from two folders
C7_Witness ==
    /\ Scanning
    /\ \E a, b, c, d \in 1..Len(found) :
          /\ a < b /\ b < c /\ c < d
          /\ found[a].folder = found[b].folder /\ found[a].file = found[b].file
          /\ found[b].folder = found[c].folder /\ found[b].file < found[c].file
          /\ found[c].folder < found[d].folder

\* ------------------------------------------------------------------------
\* C8
\* ------------------------------------------------------------------------
C8_DateBefore(a, b) ==
    \/ a.y < b.y
    \/ a.y = b.y /\ a.m < b.m
    \/ a.y = b.y /\ a.m = b.m /\ a.d < b.d

C8_NonBlank(text) == \E i \in 1..Len(text) : text[i] \notin Whitespace

\* the request of the last click: lower date before upper date and some
\* non-blank term
C8_RequestValid ==
    /\ C8_DateBefore(request.greater, request.less)
    /\ \E i \in 1..Len(request.entries) : C8_NonBlank(request.entries[i])

C8_Clicked == request.entries # <<>>

\* C8: after a click whose lower date is not before its upper date, or whose
\* term fields are all blank, no worker runs and none ran for it
\* (search_done stays false, no timer is pending), no report is created or
\* written and the UI is idle (Run enabled and green, status Idle, progress
\* 100); a search is in progress only for a valid request.
C8_ValidationGate ==
    /\ (C8_Clicked /\ ~C8_RequestValid) =>
          /\ pc \in {"none", "done"}
          /\ ~search_done
          /\ ~timer
          /\ writes = 0
          /\ outfile = NoFile
          /\ output_lines = <<>>
          /\ btn_state = "normal"
          /\ btn_style = "GreenButton.TButton"
          /\ status_var = "Status: Idle"
          /\ progress_value = 100
          /\ Len(dialogs) = 1
    /\ (btn_state = "disabled" \/ timer \/ search_done \/ writes > 0
           \/ pc \notin {"none", "done"}) => C8_RequestValid

\* a request with equal dates, rejected after an earlier search had
\* completed
C8_Witness ==
    /\ C8_Clicked
    /\ pc = "done"
    /\ ~search_done
    /\ request.greater = request.less
    /\ dialogs = <<"Input Error: dates">>

\* ------------------------------------------------------------------------
\* C9
\* ------------------------------------------------------------------------

\* what the flags and the report say is backed by what this search did
C9_OwnState ==
    /\ stop_search => elapsed >= timeout_seconds
    /\ search_timed_out => stop_search
    /\ search_done => pc = "done"
    /\ error_msg = NetworkError => (folderLog = <<>> /\ writes = 0)
    /\ error_msg = WriteError => (writes = 1 /\ outfile = NoFile)
    /\ outfile.state = "written" =>
          /\ Len(outfile.lines) = Len(HeaderLines) + 3 * Len(found) + 1
          /\ \A l \in 1..Len(outfile.lines) :
                outfile.lines[l].tag = "pre" =>
                    \E n \in 1..Len(found) :
                        outfile.lines[l] = Line("pre", <<>>, n, found[n].text)

\* a click on Run leaves nothing of the search before it
C9_FreshStart ==
    btn_state = "normal" =>
        /\ ~stop_search'
        /\ ~search_done'
        /\ ~search_timed_out'
        /\ error_msg' = None
        /\ outfile' = NoFile
        /\ msg_counter' = 1
        /\ output_lines' = (IF pc' = "list_root" /\ timer' THEN HeaderLines ELSE <<>>)

\* C9: every search starts from reset flags, an empty accumulator and no
\* report, whatever the search before it did, and the flags and the report
\* seen at its end come from its own scan: the report holds only its matches.
C9_NoCarryOver == []C9_OwnState /\ [][C9_FreshStart]_vars

\* a search started over what an earlier search left, which ends without
\* timeout or error and with a report of its own matches
C9_Witness ==
    /\ leftover
    /\ search_done
    /\ ~stop_search
    /\ ~search_timed_out
    /\ error_msg = None
    /\ outfile.state = "written"
    /\ Len(found) >= 1
    /\ dialogs = <<"Search Complete">>

\* ------------------------------------------------------------------------
\* C10
\* ------------------------------------------------------------------------

\* C10 as stated: with stop_search set the worker lists no further folder
\* and begins at most one further file.
C10_NoFurtherFolder ==
    opsAfterStop.folders = 0 /\ opsAfterStop.files <= 1

\* with stop_search set the worker begins at most one further listing or one
\* further file, the one whose test it had passed before
C10_OneMoreStep ==
    /\ opsAfterStop.folders + opsAfterStop.files <= 1
    /\ (stop_search /\ pc \in {"list_folder", "read_file"}) => opsAfterStop = NoOps
    /\ (stop_search /\ pc = "file_check" /\ opsAfterStop.folders = 1) => fj = 1

\* stop_search is set only by update_progress_bar (the worker does not move
\* in that step) and cleared only by start_search
C10_FlagWriters ==
    /\ (~stop_search /\ stop_search') => (timer /\ pc' = pc /\ elapsed' >= timeout_seconds)
    /\ (stop_search /\ ~stop_search') => btn_state = "normal"

\* C10 amended: once the timer has set stop_search the worker begins at most
\* one further filesystem call, the one whose stop test it had already
\* passed: one file open, or one folder listing (none of whose files it then
\* opens); the flag is tested before every folder and before every file
\* open, set only by the main thread's timer and cleared only by
\* start_search.
C10_BoundedResponse == []C10_OneMoreStep /\ [][C10_FlagWriters]_vars

\* the worker listed one further folder after the stop flag was set, opened
\* none of its files and finished with the report written
C10_Witness ==
    /\ stop_search
    /\ opsAfterStop = [folders |-> 1, files |-> 0]
    /\ search_done
    /\ outfile.state = "written"
    /\ folderLog[Len(folderLog)].nfiles >= 1

\* ------------------------------------------------------------------------
\* C11
\* ------------------------------------------------------------------------

\* a search_logic thread has been started and still has a statement to
\* execute (it has neither returned nor died of an exception)
WorkerAlive == pc \notin {"none", "done", "raised"}

\* the Run button is disabled and the timer runs while a worker is alive
C11_ButtonGate ==
    /\ WorkerAlive => btn_state = "disabled"
    /\ WorkerAlive => timer

\* the disabled button is enabled again only after search_done, by the
\* timer callback that then stops
C11_EnabledAfterDone ==
    (btn_state = "disabled" /\ btn_state' = "normal")
        => (search_done /\ ~WorkerAlive /\ timer /\ ~timer')

\* a thread is started only when no worker is alive
C11_SpawnAlone ==
    (btn_state = "normal" /\ btn_state' = "disabled") => (~WorkerAlive /\ pc' = "list_root")

\* while a worker is alive only a step of the worker changes output_lines,
\* and no step of the main thread changes it between the start of the
\* thread and the call of finalize_search
C11_OnlyWorkerWrites ==
    /\ (WorkerAlive /\ output_lines' # output_lines) => (Worker /\ UNCHANGED <<widgets, timer, dialogs>>)
    /\ (timer /\ (UpdateProgressBar \/ StartSearch)) => output_lines' = output_lines

\* C11: at most one search worker is alive at any time (the Run button is
\* disabled from start_search until finalize_search runs reset_ui, which
\* happens only after search_done); while a worker is alive it is the only
\* thread that appends to or replaces output_lines, and the main thread does
\* not modify output_lines between starting the worker and observing
\* search_done.
C11_SingleWriter ==
    /\ []C11_ButtonGate
    /\ [][C11_EnabledAfterDone /\ C11_SpawnAlone /\ C11_OnlyWorkerWrites]_vars

\* a second search in progress: the worker of this search has appended a
\* match with the timer running and the time up, the button disabled
C11_Witness ==
    /\ leftover
    /\ WorkerAlive
    /\ Len(found) >= 1
    /\ Len(output_lines) > NumHeaderLines
    /\ stop_search
    /\ timer
    /\ btn_state = "disabled"

\* ------------------------------------------------------------------------
\* C12
\* ------------------------------------------------------------------------

\* Fair scheduling: the worker is a daemon thread of the interpreter
\* and runs whenever it has a step (lines 259-260); the callback
\* update_progress_bar is rescheduled every 100 ms while the timer runs
\* (line 290). Every filesystem call of the worker steps returns, with a
\* result or with an exception.
SpecLive == Spec /\ WF_vars(Worker) /\ WF_vars(UpdateProgressBar)

\* the search has ended for the user: search_done is set, finalize_search
\* has shown its dialogs, the Run button is enabled and the polling chain
\* has stopped
Idle ==
    /\ search_done
    /\ btn_state = "normal"
    /\ status_var = "Status: Idle"
    /\ ~timer
    /\ dialogs = FinalDialogs

\* C12: under fair scheduling of the worker and of the timer callbacks, and
\* with every filesystem call returning, every search that started a worker
\* eventually sets search_done, after which finalize_search runs once, the
\* UI is idle with the Run button enabled, and update_progress_bar is no
\* longer rescheduled.
C12_EventuallyIdle == WorkerAlive ~> Idle
=============================================================================
